---- MODULE Spec2Model ----
(***************************************************************************)
(* mt-toolbox, src/native: the three Telegram media downloaders             *)
(*   bot_downloader.py              (bot deep link, button pagination)      *)
(*   channel_comments_downloader.py (comment thread, cursor batches)        *)
(*   topic_downloader.py            (topic, cursor batches)                 *)
(* One run of one downloader is one behaviour.  The remote side (Telethon   *)
(* client calls) is the environment: every awaited call either returns a    *)
(* value the remote may return or raises.                                   *)
(*                                                                          *)
(* Strings the model cannot hold are written in ASCII: the sub-folders      *)
(* base_dir/"图片" and base_dir/"视频" are "images" and "videos", base_dir   *)
(* itself is "root"; the arrow glyphs of ARROW_TOKENS are "ARROW_A", "ARROW_B".    *)
(***************************************************************************)
EXTENDS Integers, Sequences, FiniteSets, TLC

(* ------------------------------ bounds --------------------------------- *)
\* message ids the remote may use: 1..MaxMsgId
MaxMsgId == 3
\* --max-pages is drawn from 0..MaxPagesArg (0 = unlimited)
MaxPagesArg == 2
\* pages an unlimited run (max_pages = 0) is followed for
MaxPageCap == 2
\* the millisecond clock reads values 0..MaxClock
MaxClock == 1
\* batch_size of the cursor loops (100 in the source), scaled down
BatchSize == 2
\* --start-from is drawn from (0 - NegStartFrom)..(MaxMsgId + 1)
NegStartFrom == 1
\* the id of the newest message before the command is drawn from 0..MaxWatermark
MaxWatermark == 1
\* a path segment of a link has 1..MaxSegLen characters
MaxSegLen == 3
\* a row of an inline keyboard has 1..MaxRowLen buttons
MaxRowLen == 3

(* -------------------------- program constants --------------------------- *)
\* client.get_messages(bot_entity, limit=50)
fetch_limit == 50
\* --max-pages and --start-from defaults
default_max_pages == 100
default_start_from == 1

(* ------------------------------ helpers -------------------------------- *)
Min(a, b) == IF a < b THEN a ELSE b

RECURSIVE InsertById(_, _)
InsertById(m, s) ==
    IF s = <<>> THEN <<m>>
    ELSE IF m.id < Head(s).id THEN <<m>> \o s
    ELSE <<Head(s)>> \o InsertById(m, Tail(s))

RECURSIVE SortByIdFrom(_, _)
SortByIdFrom(s, acc) ==
    IF s = <<>> THEN acc ELSE SortByIdFrom(Tail(s), InsertById(Head(s), acc))

\* the list left in the order the remote served it
SortById_Unsorted(s) == s

\* list.sort(key=lambda m: m.id): ascending by id, stable
SortById(s) == SortByIdFrom(s, <<>>)

(* --------------------------- number formatting -------------------------- *)
DigitChar(d) == CASE d = 0 -> "0" [] d = 1 -> "1" [] d = 2 -> "2" [] d = 3 -> "3"
                  [] d = 4 -> "4" [] d = 5 -> "5" [] d = 6 -> "6" [] d = 7 -> "7"
                  [] d = 8 -> "8" [] d = 9 -> "9"

RECURSIVE NatDigits(_)
\* str(n) for n >= 0, one character per element
NatDigits(n) == IF n < 10 THEN <<DigitChar(n)>>
                ELSE NatDigits(n \div 10) \o <<DigitChar(n % 10)>>

RECURSIVE ZeroPad(_, _)
ZeroPad(s, width) == IF Len(s) >= width THEN s ELSE ZeroPad(<<"0">> \o s, width)

\* f"{idx:03d}": sign first, then zeros up to a total width of 3
Fmt03d(n) == IF n < 0 THEN <<"-">> \o ZeroPad(NatDigits(0 - n), 2)
             ELSE ZeroPad(NatDigits(n), 3)

(* ------------------------------ messages -------------------------------- *)
\* A media payload: msg.photo, msg.video, msg.document.mime_type (the MIME
\* string split at "/"; <<>> when the message has no document).
NoMedia  == [photo |-> FALSE, video |-> FALSE, mime |-> <<>>]
Photo    == [photo |-> TRUE,  video |-> FALSE, mime |-> <<>>]
Video    == [photo |-> FALSE, video |-> TRUE,  mime |-> <<"video", "mp4">>]
WebmDoc  == [photo |-> FALSE, video |-> FALSE, mime |-> <<"video", "webm">>]
PdfDoc   == [photo |-> FALSE, video |-> FALSE, mime |-> <<"application", "pdf">>]

\* msg.photo or msg.video or msg.document
HasMedia(m) == m.payload.photo \/ m.payload.video \/ m.payload.mime # <<>>

\* Inline keyboards: rows of buttons; a button's text has one character per
\* element, its data is the callback token ("" when the button has none).
Btn(t, d) == [text |-> t, data |-> d]
ArrowBtn    == Btn(<<"ARROW_A">>, "next")
InfoBtn     == Btn(<<"1", "/", "3">>, "page_info")
Page2Btn    == Btn(<<"2">>, "page_2")
Page3Btn    == Btn(<<"3">>, "page_3")
FakeArrow   == Btn(<<"ARROW_B">>, "page_info")
UrlBtn      == Btn(<<"2">>, "")
NoButtons   == <<>>
ArrowRow    == << <<ArrowBtn>> >>
NumberRows  == << <<InfoBtn>>, <<Page2Btn, Page3Btn>> >>
InfoRow     == << <<FakeArrow, UrlBtn>> >>

Absent == [out |-> FALSE, payload |-> NoMedia, buttons |-> NoButtons, gone |-> TRUE]
Shape(o, p, b) == [out |-> o, payload |-> p, buttons |-> b, gone |-> FALSE]

\* what the bot conversation may show under one message id
BotShapes == { Shape(TRUE, NoMedia, NoButtons),
               Shape(FALSE, Photo, NoButtons),
               Shape(FALSE, WebmDoc, ArrowRow),
               Shape(FALSE, NoMedia, NumberRows),
               Shape(FALSE, PdfDoc, InfoRow) }

\* what a comment thread or a topic may show under one message id
ThreadShapes == { Shape(FALSE, NoMedia, NoButtons),
                  Shape(FALSE, Photo, NoButtons),
                  Shape(FALSE, Video, NoButtons),
                  Shape(FALSE, PdfDoc, NoButtons) }

MsgIds == 1..MaxMsgId

Msg(i, sh) == [id |-> i, out |-> sh.out, payload |-> sh.payload, buttons |-> sh.buttons]

RECURSIVE ServeFrom(_, _)
\* the messages of a conversation f (id -> shape or Absent), newest first
ServeFrom(f, i) ==
    IF i = 0 THEN <<>>
    ELSE IF f[i].gone THEN ServeFrom(f, i - 1)
    ELSE <<Msg(i, f[i])>> \o ServeFrom(f, i - 1)

(* ----------------------------- classifier ------------------------------- *)
\* mime_type.startswith(prefix + "/")
MimeStartsWith(mime, prefix) == Len(mime) >= 2 /\ mime[1] = prefix
\* mime_type.split("/")[-1]
MimeLast(mime) == mime[Len(mime)]

\* bot_downloader.download_media_messages: file type, extension, save_dir
ClassifyBot(m) ==
    IF m.payload.photo THEN [ok |-> TRUE, ext |-> "jpg", dir |-> "images"]
    ELSE IF m.payload.video THEN [ok |-> TRUE, ext |-> "mp4", dir |-> "videos"]
    ELSE IF m.payload.mime # <<>> THEN
        IF MimeStartsWith(m.payload.mime, "image")
            THEN [ok |-> TRUE, ext |-> MimeLast(m.payload.mime), dir |-> "images"]
        ELSE IF MimeStartsWith(m.payload.mime, "video")
            THEN [ok |-> TRUE, ext |-> MimeLast(m.payload.mime), dir |-> "videos"]
        ELSE [ok |-> TRUE,
              ext |-> IF Len(m.payload.mime) >= 2 THEN MimeLast(m.payload.mime) ELSE "bin",
              dir |-> "root"]
    ELSE [ok |-> FALSE, ext |-> "", dir |-> "root"]

\* channel_comments_downloader.download_media_from_message, the same decision
ClassifyComment(m) ==
    IF m.payload.photo THEN [ok |-> TRUE, ext |-> "jpg", dir |-> "images"]
    ELSE IF m.payload.video THEN [ok |-> TRUE, ext |-> "mp4", dir |-> "videos"]
    ELSE IF m.payload.mime # <<>> THEN
        IF MimeStartsWith(m.payload.mime, "image")
            THEN [ok |-> TRUE, ext |-> MimeLast(m.payload.mime), dir |-> "images"]
        ELSE IF MimeStartsWith(m.payload.mime, "video")
            THEN [ok |-> TRUE, ext |-> MimeLast(m.payload.mime), dir |-> "videos"]
        ELSE [ok |-> TRUE,
              ext |-> IF Len(m.payload.mime) >= 2 THEN MimeLast(m.payload.mime) ELSE "bin",
              dir |-> "root"]
    ELSE [ok |-> FALSE, ext |-> "", dir |-> "root"]

\* the decision with the document MIME read before the video flag
ClassifyTopic_MimeFirst(m) ==
    IF m.payload.photo THEN [ok |-> TRUE, ext |-> "jpg", dir |-> "images"]
    ELSE IF m.payload.mime # <<>> THEN
        IF MimeStartsWith(m.payload.mime, "image")
            THEN [ok |-> TRUE, ext |-> MimeLast(m.payload.mime), dir |-> "images"]
        ELSE IF MimeStartsWith(m.payload.mime, "video")
            THEN [ok |-> TRUE, ext |-> MimeLast(m.payload.mime), dir |-> "videos"]
        ELSE [ok |-> TRUE,
              ext |-> IF Len(m.payload.mime) >= 2 THEN MimeLast(m.payload.mime) ELSE "bin",
              dir |-> "root"]
    ELSE IF m.payload.video THEN [ok |-> TRUE, ext |-> "mp4", dir |-> "videos"]
    ELSE [ok |-> FALSE, ext |-> "", dir |-> "root"]

\* topic_downloader.download_media_from_message, the same decision
ClassifyTopic(m) ==
    IF m.payload.photo THEN [ok |-> TRUE, ext |-> "jpg", dir |-> "images"]
    ELSE IF m.payload.video THEN [ok |-> TRUE, ext |-> "mp4", dir |-> "videos"]
    ELSE IF m.payload.mime # <<>> THEN
        IF MimeStartsWith(m.payload.mime, "image")
            THEN [ok |-> TRUE, ext |-> MimeLast(m.payload.mime), dir |-> "images"]
        ELSE IF MimeStartsWith(m.payload.mime, "video")
            THEN [ok |-> TRUE, ext |-> MimeLast(m.payload.mime), dir |-> "videos"]
        ELSE [ok |-> TRUE,
              ext |-> IF Len(m.payload.mime) >= 2 THEN MimeLast(m.payload.mime) ELSE "bin",
              dir |-> "root"]
    ELSE [ok |-> FALSE, ext |-> "", dir |-> "root"]

(* ------------------------------- naming --------------------------------- *)
\* temp_filename = f"{idx:03d}.{ext}" in save_dir
TempPath(dir, index, ext) == [dir |-> dir, base |-> Fmt03d(index), ext |-> ext]
\* new_filename = f"{timestamp}_{temp_filename}" in save_dir
FinalPath(dir, timestamp, index, ext) ==
    [dir |-> dir, ts |-> timestamp, base |-> Fmt03d(index), ext |-> ext]

(* ------------------------- find_next_page_button ------------------------ *)
RECURSIVE Flatten(_)
\* for row in latest_msg.buttons: for btn in row
Flatten(rows) == IF rows = <<>> THEN <<>> ELSE Head(rows) \o Flatten(Tail(rows))

\* pat in text (substring)
Contains(text, pat) ==
    \E i \in 0..(Len(text) - Len(pat)) :
        \A j \in 1..Len(pat) : text[i + j] = pat[j]

ARROW_TOKENS == {"ARROW_A", "ARROW_B"}
HasArrow(text) == \E i \in 1..Len(text) : text[i] \in ARROW_TOKENS

NoBtn == Btn(<<>>, "")

RECURSIVE ScanButtons_KeepInfo(_, _, _)
\* the scan without the page_info exclusion
ScanButtons_KeepInfo(btns, number, acc) ==
    IF btns = <<>> THEN acc
    ELSE LET btn == Head(btns) IN
         IF btn.data = "" THEN ScanButtons_KeepInfo(Tail(btns), number, acc)
         ELSE IF HasArrow(btn.text)
            THEN ScanButtons_KeepInfo(Tail(btns), number, [acc EXCEPT !.arrow = btn])
         ELSE IF Contains(btn.text, number)
            THEN ScanButtons_KeepInfo(Tail(btns), number, [acc EXCEPT !.page = btn])
         ELSE ScanButtons_KeepInfo(Tail(btns), number, acc)

RECURSIVE ScanButtons(_, _, _)
\* the double loop over the buttons: the last match of each sort is kept
ScanButtons(btns, number, acc) ==
    IF btns = <<>> THEN acc
    ELSE LET btn == Head(btns) IN
         IF btn.data = "" THEN ScanButtons(Tail(btns), number, acc)
         ELSE IF btn.data = "page_info" THEN ScanButtons(Tail(btns), number, acc)
         ELSE IF HasArrow(btn.text)
            THEN ScanButtons(Tail(btns), number, [acc EXCEPT !.arrow = btn])
         ELSE IF Contains(btn.text, number)
            THEN ScanButtons(Tail(btns), number, [acc EXCEPT !.page = btn])
         ELSE ScanButtons(Tail(btns), number, acc)

\* the oldest inbound message with buttons instead of the newest
LatestWithButtons_Oldest(messages) ==
    LET cand == {i \in 1..Len(messages) :
                    ~messages[i].out /\ messages[i].buttons # <<>>}
    IN  IF cand = {} THEN 0
        ELSE CHOOSE i \in cand : \A j \in cand : messages[j].id >= messages[i].id

\* the newest inbound message with buttons: sorted(..., reverse=True)[0]
LatestWithButtons(messages) ==
    LET cand == {i \in 1..Len(messages) :
                    ~messages[i].out /\ messages[i].buttons # <<>>}
    IN  IF cand = {} THEN 0
        ELSE CHOOSE i \in cand : \A j \in cand : messages[j].id <= messages[i].id

\* the search returning the page-number button ahead of the arrow button
find_next_page_button_NumberFirst(messages, page) ==
    LET k == LatestWithButtons(messages) IN
    IF k = 0 THEN [found |-> FALSE, msg |-> 0, btn |-> NoBtn]
    ELSE LET r == ScanButtons(Flatten(messages[k].buttons), NatDigits(page + 1),
                              [arrow |-> NoBtn, page |-> NoBtn])
         IN  IF r.page # NoBtn
                THEN [found |-> TRUE, msg |-> messages[k].id, btn |-> r.page]
             ELSE IF r.arrow # NoBtn
                THEN [found |-> TRUE, msg |-> messages[k].id, btn |-> r.arrow]
             ELSE [found |-> FALSE, msg |-> 0, btn |-> NoBtn]

find_next_page_button(messages, page) ==
    LET k == LatestWithButtons(messages) IN
    IF k = 0 THEN [found |-> FALSE, msg |-> 0, btn |-> NoBtn]
    ELSE LET r == ScanButtons(Flatten(messages[k].buttons), NatDigits(page + 1),
                              [arrow |-> NoBtn, page |-> NoBtn])
         IN  IF r.arrow # NoBtn
                THEN [found |-> TRUE, msg |-> messages[k].id, btn |-> r.arrow]
             ELSE IF r.page # NoBtn
                THEN [found |-> TRUE, msg |-> messages[k].id, btn |-> r.page]
             ELSE [found |-> FALSE, msg |-> 0, btn |-> NoBtn]

(* ------------------------------- state ---------------------------------- *)
VARIABLES
    flow,                \* which downloader runs: "bot", "comment", "topic"
    pc,                  \* the await point the run is at
    outcome,             \* how the run ended ("running" until then)
    max_pages,           \* --max-pages
    start_from,          \* --start-from
    last_msg_id_before,  \* bot: watermark
    downloaded_msg_ids,  \* bot: dedup set
    total_downloaded,    \* bot: files renamed on the pages completed
    current_page,        \* bot: page counter
    new_messages,        \* bot: the new messages of the page being processed
    comments,            \* comment/topic: the batches concatenated
    offset_id,           \* comment/topic: cursor
    original_message,    \* comment: what the lookup of the parent post returned
    media_messages,      \* the media messages still to be downloaded
    idx,                 \* index of the next download (enumerate)
    downloaded,          \* files renamed in the running download loop
    disk,                \* final files: {[path, id]}
    dirs,                \* directories that exist under the output root
    clock,               \* last millisecond timestamp read
    selected,            \* history: ids picked for the running page or batch
    attempts,            \* history: <<[id, idx, page]>> of the download attempts
    renames,             \* history: <<[id, path]>> of the successful renames
    fetches,             \* history: page fetches issued by the bot loop
    clicks,              \* history: button clicks issued
    rejected,            \* flood control rejected the request issued last
    fn,                  \* function-level checks: the function applied
    arg,                 \* function-level checks: its argument
    ret                  \* function-level checks: its result ("pending" before the call)

vars == <<flow, pc, outcome, max_pages, start_from, last_msg_id_before,
          downloaded_msg_ids, total_downloaded, current_page, new_messages,
          comments, offset_id, original_message, media_messages, idx, downloaded,
          disk, dirs, clock, selected, attempts, renames, fetches, clicks, rejected,
          fn, arg, ret>>

\* the variables of the function-level checks; a run leaves them alone
unitVars == <<fn, arg, ret>>
\* what a run is started with
params   == <<flow, max_pages, start_from, unitVars>>
botVars  == <<last_msg_id_before, downloaded_msg_ids, total_downloaded,
              current_page, new_messages, fetches, clicks>>
curVars  == <<comments, offset_id, original_message>>
loopVars == <<media_messages, idx, downloaded, selected>>
fsVars   == <<disk, dirs, clock, attempts, renames>>

Flows == {"bot", "comment", "topic"}
StartFromArgs == (0 - NegStartFrom)..(MaxMsgId + 1)

Init ==
    /\ flow \in Flows
    /\ pc = "resolve"
    /\ outcome = "running"
    /\ max_pages \in (IF flow = "bot" THEN 0..MaxPagesArg ELSE {default_max_pages})
    /\ start_from \in (IF flow = "comment" THEN StartFromArgs ELSE {default_start_from})
    /\ last_msg_id_before = 0
    /\ downloaded_msg_ids = {}
    /\ total_downloaded = 0
    /\ current_page = 1
    /\ new_messages = <<>>
    /\ comments = <<>>
    /\ offset_id = 0
    /\ original_message = "unfetched"
    /\ media_messages = <<>>
    /\ idx = 0
    /\ downloaded = 0
    /\ disk = {}
    /\ dirs = {"root"}
    /\ clock = 0
    /\ selected = <<>>
    /\ attempts = <<>>
    /\ renames = <<>>
    /\ fetches = 0
    /\ clicks = 0
    /\ rejected = FALSE
    /\ fn = "none"
    /\ arg = <<>>
    /\ ret = <<>>

(* ------------------------- shared building blocks ----------------------- *)
\* one awaited remote request; flood = flood control refuses it (FloodWaitError)
Issue(flood) == rejected' = flood

\* the run is over
End(how) ==
    /\ pc' = "ended"
    /\ outcome' = how

\* temp_filepath.rename(new_filepath): the target is replaced if it exists
Rename(files, path, id) ==
    {f \in files : f.path # path} \cup {[path |-> path, id |-> id]}

\* the per-item block with break where the code has continue: the first
\* failing item ends the loop
TryItem_Abort(m, c, r, ts) ==
    /\ idx' = idx + 1
    /\ IF ~c.ok
         THEN /\ r = "fail"
              /\ media_messages' = Tail(media_messages)
              /\ UNCHANGED <<attempts, clock, disk, renames, downloaded, rejected>>
         ELSE /\ Issue(r = "flood")
              /\ attempts' = Append(attempts,
                     [id |-> m.id, idx |-> idx, page |-> current_page, dir |-> c.dir])
              /\ IF r = "ok"
                   THEN /\ clock' = ts
                        /\ media_messages' = Tail(media_messages)
                        /\ disk' = Rename(disk, FinalPath(c.dir, ts, idx, c.ext), m.id)
                        /\ renames' = Append(renames,
                               [id |-> m.id, path |-> FinalPath(c.dir, ts, idx, c.ext)])
                        /\ downloaded' = downloaded + 1
                   ELSE /\ media_messages' = <<>>
                        /\ UNCHANGED <<clock, disk, renames, downloaded>>

\* the per-item block with the counter raised for every transfer issued
TryItem_CountAll(m, c, r, ts) ==
    /\ media_messages' = Tail(media_messages)
    /\ idx' = idx + 1
    /\ IF ~c.ok
         THEN /\ r = "fail"
              /\ UNCHANGED <<attempts, clock, disk, renames, downloaded, rejected>>
         ELSE /\ Issue(r = "flood")
              /\ attempts' = Append(attempts,
                     [id |-> m.id, idx |-> idx, page |-> current_page, dir |-> c.dir])
              /\ downloaded' = downloaded + 1
              /\ IF r = "ok"
                   THEN /\ clock' = ts
                        /\ disk' = Rename(disk, FinalPath(c.dir, ts, idx, c.ext), m.id)
                        /\ renames' = Append(renames,
                               [id |-> m.id, path |-> FinalPath(c.dir, ts, idx, c.ext)])
                   ELSE UNCHANGED <<clock, disk, renames>>

\* One pass of the per-item try block for message m, classified as c.  A
\* message without media leaves the block at once (continue / return False).
\* Otherwise: the transfer (client.download_media), the timestamp, the rename.
\*   r = "ok"          transfer and rename succeed
\*   r = "flood"       the transfer is rejected by flood control
\*   r = "fail"        the transfer raises anything else
\*   r = "rename_fail" the transfer succeeds, the rename raises
\* Every exception is caught in the block; the loop goes on with the next item.
TryItem(m, c, r, ts) ==
    /\ media_messages' = Tail(media_messages)
    /\ idx' = idx + 1
    /\ IF ~c.ok
         THEN /\ r = "fail"
              /\ UNCHANGED <<attempts, clock, disk, renames, downloaded, rejected>>
         ELSE /\ Issue(r = "flood")
              /\ attempts' = Append(attempts,
                     [id |-> m.id, idx |-> idx, page |-> current_page, dir |-> c.dir])
              /\ IF r = "ok"
                   THEN /\ clock' = ts
                        /\ disk' = Rename(disk, FinalPath(c.dir, ts, idx, c.ext), m.id)
                        /\ renames' = Append(renames,
                               [id |-> m.id, path |-> FinalPath(c.dir, ts, idx, c.ext)])
                        /\ downloaded' = downloaded + 1
                   ELSE UNCHANGED <<clock, disk, renames, downloaded>>

ItemResults == {"ok", "flood", "fail", "rename_fail"}
\* int(time.time() * 1000): not before the last value read, possibly equal to it
ClockReads == clock..Min(clock + 1, MaxClock)

(* ------------------------ bot_downloader.py ----------------------------- *)
\* The conversation as the remote shows it at one fetch: under every message
\* id a message of some shape, or none.  A message the run has already marked
\* in downloaded_msg_ids is listed again as a plain photo or is gone: what it
\* carries by then is not read.
Conversations ==
    { a @@ b : a \in [MsgIds \ downloaded_msg_ids -> BotShapes \cup {Absent}],
               b \in [MsgIds \cap downloaded_msg_ids ->
                         {Shape(FALSE, Photo, NoButtons), Absent}] }

\* client.get_messages(bot_entity, limit=50): the newest messages, newest first
RecentMessages(f) ==
    LET all == ServeFrom(f, MaxMsgId) IN SubSeq(all, 1, Min(Len(all), fetch_limit))

\* the new-message filter without the watermark test
NewMessages_NoWatermark(messages) ==
    SelectSeq(messages, LAMBDA m : m.id \notin downloaded_msg_ids)

\* the new-message filter without the dedup test
NewMessages_NoDedup(messages) ==
    SelectSeq(messages, LAMBDA m : m.id > last_msg_id_before)

\* [msg for msg in messages if msg.id > last_msg_id_before
\*                             and msg.id not in downloaded_msg_ids]
NewMessages(messages) ==
    SelectSeq(messages,
              LAMBDA m : m.id > last_msg_id_before /\ m.id \notin downloaded_msg_ids)

\* the marking restricted to photo messages
MediaIds_PhotosOnly(messages) ==
    {messages[i].id : i \in {j \in 1..Len(messages) : messages[j].payload.photo}}

\* the ids the page adds to downloaded_msg_ids
MediaIds(messages) == {messages[i].id : i \in {j \in 1..Len(messages) : HasMedia(messages[j])}}

\* download_media_messages: the inbound media messages, ascending by id
BotMediaMessages(messages) ==
    SortById(SelectSeq(messages, LAMBDA m : ~m.out /\ HasMedia(m)))

\* the two sub-folders made before the empty check
DirsAfterScan_Eager(media) == dirs \cup {"images", "videos"}

\* download_media_messages: "if not media_messages: return 0" comes before
\* images_dir.mkdir(...) and videos_dir.mkdir(...)
DirsAfterScan(media) ==
    IF media = <<>> THEN dirs ELSE dirs \cup {"images", "videos"}

\* the loop condition with < for <=
PageAllowed_Strict == (max_pages = 0) \/ current_page < max_pages

\* the loop condition off by one
PageAllowed_OffByOne == (max_pages = 0) \/ current_page <= max_pages + 1

\* the loop condition: while unlimited or current_page <= max_pages
PageAllowed == (max_pages = 0) \/ current_page <= max_pages

\* bot_entity = await client.get_entity(bot_username)
BotResolve ==
    /\ flow = "bot" /\ pc = "resolve"
    /\ \E r \in {"ok", "notfound", "flood"} :
        /\ Issue(r = "flood")
        /\ IF r = "ok" THEN pc' = "watermark" /\ UNCHANGED outcome
           ELSE IF r = "notfound" THEN End("BotNotFound")
           ELSE End("Error")
    /\ UNCHANGED <<params, botVars, curVars, loopVars, fsVars>>

\* the watermark request with its failure reported as an unresolved username
BotWatermark_NotFound ==
    /\ flow = "bot" /\ pc = "watermark"
    /\ \E r \in {"ok", "flood"}, w \in 0..MaxWatermark :
        /\ Issue(r = "flood")
        /\ IF r = "ok"
             THEN /\ last_msg_id_before' = w
                  /\ pc' = "send" /\ UNCHANGED outcome
             ELSE /\ w = 0
                  /\ End("BotNotFound")
                  /\ UNCHANGED last_msg_id_before
    /\ UNCHANGED <<params, downloaded_msg_ids, total_downloaded, current_page,
                   new_messages, fetches, clicks, curVars, loopVars, fsVars>>

\* old_messages = await client.get_messages(bot_entity, limit=1)
BotWatermark ==
    /\ flow = "bot" /\ pc = "watermark"
    /\ \E r \in {"ok", "flood"}, w \in 0..MaxWatermark :
        /\ Issue(r = "flood")
        /\ IF r = "ok"
             THEN /\ last_msg_id_before' = w
                  /\ pc' = "send" /\ UNCHANGED outcome
             ELSE /\ w = 0
                  /\ End("Error")
                  /\ UNCHANGED last_msg_id_before
    /\ UNCHANGED <<params, downloaded_msg_ids, total_downloaded, current_page,
                   new_messages, fetches, clicks, curVars, loopVars, fsVars>>

\* await client.send_message(bot_entity, command); sleep(5); the counters
BotSend ==
    /\ flow = "bot" /\ pc = "send"
    /\ \E r \in {"ok", "flood"} :
        /\ Issue(r = "flood")
        /\ IF r = "ok"
             THEN /\ total_downloaded' = 0
                  /\ current_page' = 1
                  /\ downloaded_msg_ids' = {}
                  /\ pc' = "loop" /\ UNCHANGED outcome
             ELSE /\ End("Error")
                  /\ UNCHANGED <<total_downloaded, current_page, downloaded_msg_ids>>
    /\ UNCHANGED <<params, last_msg_id_before, new_messages, fetches, clicks,
                   curVars, loopVars, fsVars>>

\* the while condition fails: the page limit is reached
BotPageLimit ==
    /\ flow = "bot" /\ pc = "loop"
    /\ ~PageAllowed
    /\ End("PageLimit")
    /\ UNCHANGED <<params, botVars, curVars, loopVars, fsVars, rejected>>

\* One page up to the download loop: the fetch, the new-message filter, the
\* dedup marks, and download_media_messages up to its for loop.
BotFetchPage ==
    /\ flow = "bot" /\ pc = "loop"
    /\ PageAllowed
    /\ max_pages = 0 => current_page <= MaxPageCap
    /\ fetches' = fetches + 1
    /\ \/ /\ Issue(TRUE)
          /\ End("Error")
          /\ UNCHANGED <<downloaded_msg_ids, new_messages, loopVars, dirs>>
       \/ \E f \in Conversations :
            LET new   == NewMessages(RecentMessages(f))
                media == BotMediaMessages(new)
            IN  /\ Issue(FALSE)
                /\ IF new = <<>>
                     THEN /\ End("Stalled")
                          /\ UNCHANGED <<downloaded_msg_ids, new_messages, loopVars, dirs>>
                     ELSE /\ downloaded_msg_ids' = downloaded_msg_ids \cup MediaIds(new)
                          /\ new_messages' = new
                          /\ media_messages' = media
                          /\ selected' = [i \in 1..Len(media) |-> media[i].id]
                          /\ idx' = total_downloaded + 1
                          /\ downloaded' = 0
                          /\ dirs' = DirsAfterScan(media)
                          /\ pc' = "download" /\ UNCHANGED outcome
    /\ UNCHANGED <<params, last_msg_id_before, total_downloaded, current_page,
                   clicks, curVars, disk, clock, attempts, renames>>

\* one iteration of the for loop of download_media_messages
BotDownloadItem ==
    /\ flow = "bot" /\ pc = "download"
    /\ media_messages # <<>>
    /\ \E r \in ItemResults, ts \in ClockReads :
        /\ r # "ok" => ts = clock
        /\ TryItem(Head(media_messages), ClassifyBot(Head(media_messages)), r, ts)
    /\ UNCHANGED <<params, botVars, curVars, selected, dirs, pc, outcome>>

\* the loop body after the downloads when find_next_page_button finds nothing
BotNoNextPage ==
    /\ flow = "bot" /\ pc = "download"
    /\ media_messages = <<>>
    /\ ~find_next_page_button(new_messages, current_page).found
    /\ total_downloaded' = total_downloaded + downloaded
    /\ End("Done")
    /\ UNCHANGED <<params, last_msg_id_before, downloaded_msg_ids, current_page,
                   new_messages, fetches, clicks, curVars, loopVars, fsVars,
                   rejected>>

\* the loop body after the downloads when a button is found: click, sleep(4)
BotClickNext ==
    /\ flow = "bot" /\ pc = "download"
    /\ media_messages = <<>>
    /\ find_next_page_button(new_messages, current_page).found
    /\ total_downloaded' = total_downloaded + downloaded
    /\ clicks' = clicks + 1
    /\ \E r \in {"ok", "flood"} :
        /\ Issue(r = "flood")
        /\ IF r = "ok"
             THEN /\ current_page' = current_page + 1
                  /\ pc' = "loop" /\ UNCHANGED outcome
             ELSE /\ End("Error")
                  /\ UNCHANGED current_page
    /\ UNCHANGED <<params, last_msg_id_before, downloaded_msg_ids, new_messages,
                   fetches, curVars, loopVars, fsVars>>

BotNext ==
    \/ BotResolve \/ BotWatermark \/ BotSend \/ BotPageLimit \/ BotFetchPage
    \/ BotDownloadItem \/ BotNoNextPage \/ BotClickNext

(* ------------- channel_comments_downloader.py, topic_downloader.py ------ *)
\* client.get_messages(entity, reply_to=..., limit=batch_size, offset_id=...):
\* what the call can return: at most limit messages of the thread, all with
\* an id below the cursor (any id when the cursor is 0), newest first
ThreadBatches(offset, limit) ==
    LET below == IF offset = 0 THEN MsgIds ELSE {i \in MsgIds : i < offset}
    IN  UNION { { ServeFrom([i \in MsgIds |-> IF i \in S THEN sh[i] ELSE Absent], MaxMsgId)
                  : sh \in [S -> ThreadShapes] }
                : S \in {T \in SUBSET below : Cardinality(T) <= limit} }

\* [c for c in comments if c.photo or c.video or c.document], sorted by id
MediaSorted(all) == SortById(SelectSeq(all, HasMedia))

\* the slice taken at start_from instead of start_from - 1
DropLeading_OffByOne(s, n) == SubSeq(s, Min(n + 1, Len(s)) + 1, Len(s))

\* media_comments[start_from - 1:]
DropLeading(s, n) == SubSeq(s, Min(n, Len(s)) + 1, Len(s))

\* channel_entity = await client.get_entity(channel_username); isinstance check
ComResolve ==
    /\ flow = "comment" /\ pc = "resolve"
    /\ \E r \in {"ok", "not_channel", "notfound", "flood"} :
        /\ Issue(r = "flood")
        /\ IF r = "ok" THEN pc' = "post" /\ UNCHANGED outcome
           ELSE IF r = "not_channel" THEN End("NotChannel")
           ELSE IF r = "notfound" THEN End("NotFound")
           ELSE End("Error")
    /\ UNCHANGED <<params, botVars, curVars, loopVars, fsVars>>

\* What get_messages(channel_entity, ids=message_id) may return:
\*   "missing"       None: no such post
\*   "no_replies"    a post whose replies field is None (no comment section)
\*   "zero_replies"  a post with a replies object whose count is 0
\*   "has_replies"   a post with a replies object whose count is positive
PostLookups == {"missing", "no_replies", "zero_replies", "has_replies"}

\* "if not original_message: return" and "if not hasattr(original_message,
\* 'replies') or not original_message.replies: return": a replies object is
\* true whatever count it holds
PassesPostChecks(post) == post \notin {"missing", "no_replies"}

\* what the thread of a post can serve: nothing when its count is 0
BatchesOf(post, offset, limit) ==
    IF post = "zero_replies" THEN {<<>>} ELSE ThreadBatches(offset, limit)

\* original_message = await client.get_messages(channel_entity, ids=message_id)
ComGetPost ==
    /\ flow = "comment" /\ pc = "post"
    /\ \/ /\ Issue(TRUE)
          /\ End("Error")
          /\ UNCHANGED original_message
       \/ \E post \in PostLookups :
          /\ Issue(FALSE)
          /\ original_message' = post
          /\ IF PassesPostChecks(post) THEN pc' = "batch" /\ UNCHANGED outcome
             ELSE End("NoComments")
    /\ UNCHANGED <<params, botVars, comments, offset_id, loopVars, fsVars>>

\* the batch loop left after its first batch, full or not
ComFetchBatch_OneBatch ==
    /\ flow = "comment" /\ pc = "batch"
    /\ \/ /\ Issue(TRUE)
          /\ End("Error")
          /\ UNCHANGED <<curVars, loopVars>>
       \/ \E batch \in BatchesOf(original_message, offset_id, BatchSize) :
            LET all   == comments \o batch
                media == MediaSorted(all)
                rest  == IF start_from > 1 THEN DropLeading(media, start_from - 1)
                         ELSE media
            IN  /\ Issue(FALSE)
                /\ comments' = all
                /\ UNCHANGED original_message
                /\ IF batch # <<>> /\ Len(batch) > BatchSize
                     THEN /\ offset_id' = batch[Len(batch)].id
                          /\ UNCHANGED <<pc, outcome, loopVars>>
                     ELSE /\ UNCHANGED offset_id
                          /\ IF media = <<>>
                               THEN End("NoContent") /\ UNCHANGED loopVars
                             ELSE IF start_from > 1 /\ start_from > Len(media)
                               THEN End("StartBeyond") /\ UNCHANGED loopVars
                             ELSE /\ media_messages' = rest
                                  /\ selected' = [i \in 1..Len(rest) |-> rest[i].id]
                                  /\ idx' = start_from
                                  /\ downloaded' = 0
                                  /\ pc' = "download" /\ UNCHANGED outcome
    /\ UNCHANGED <<params, botVars, fsVars>>

\* One turn of the while True loop; when the loop ends, the code up to the
\* download loop: the media filter, the sort and the start_from slice.
ComFetchBatch ==
    /\ flow = "comment" /\ pc = "batch"
    /\ \/ /\ Issue(TRUE)
          /\ End("Error")
          /\ UNCHANGED <<curVars, loopVars>>
       \/ \E batch \in BatchesOf(original_message, offset_id, BatchSize) :
            LET all   == comments \o batch
                media == MediaSorted(all)
                rest  == IF start_from > 1 THEN DropLeading(media, start_from - 1)
                         ELSE media
            IN  /\ Issue(FALSE)
                /\ comments' = all
                /\ UNCHANGED original_message
                /\ IF batch # <<>> /\ Len(batch) >= BatchSize
                     THEN /\ offset_id' = batch[Len(batch)].id
                          /\ UNCHANGED <<pc, outcome, loopVars>>
                     ELSE /\ UNCHANGED offset_id
                          /\ IF media = <<>>
                               THEN End("NoContent") /\ UNCHANGED loopVars
                             ELSE IF start_from > 1 /\ start_from > Len(media)
                               THEN End("StartBeyond") /\ UNCHANGED loopVars
                             ELSE /\ media_messages' = rest
                                  /\ selected' = [i \in 1..Len(rest) |-> rest[i].id]
                                  /\ idx' = start_from
                                  /\ downloaded' = 0
                                  /\ pc' = "download" /\ UNCHANGED outcome
    /\ UNCHANGED <<params, botVars, fsVars>>

\* download_media_from_message for the next media comment
ComDownloadItem ==
    /\ flow = "comment" /\ pc = "download"
    /\ media_messages # <<>>
    /\ dirs' = IF ClassifyComment(Head(media_messages)).ok
                 THEN dirs \cup {ClassifyComment(Head(media_messages)).dir}
                 ELSE dirs
    /\ \E r \in ItemResults, ts \in ClockReads :
        /\ r # "ok" => ts = clock
        /\ TryItem(Head(media_messages), ClassifyComment(Head(media_messages)), r, ts)
    /\ UNCHANGED <<params, botVars, curVars, selected, pc, outcome>>

\* the for loop is over: the summary is printed
ComFinish ==
    /\ flow = "comment" /\ pc = "download"
    /\ media_messages = <<>>
    /\ End("Completed")
    /\ UNCHANGED <<params, botVars, curVars, loopVars, fsVars, rejected>>

\* channel_entity = await client.get_entity(channel_username); isinstance check
TopicResolve ==
    /\ flow = "topic" /\ pc = "resolve"
    /\ \E r \in {"ok", "not_channel", "private", "flood"} :
        /\ Issue(r = "flood")
        /\ IF r = "ok" THEN pc' = "batch" /\ UNCHANGED outcome
           ELSE IF r = "not_channel" THEN End("NotChannel")
           ELSE End("Error")
    /\ UNCHANGED <<params, botVars, curVars, loopVars, fsVars>>

\* the batch loop with the cursor set to the first message of the batch
TopicFetchBatch_FirstAsCursor ==
    /\ flow = "topic" /\ pc = "batch"
    /\ \/ /\ Issue(TRUE)
          /\ End("Error")
          /\ UNCHANGED <<curVars, loopVars>>
       \/ \E batch \in ThreadBatches(offset_id, BatchSize) :
            LET all   == comments \o batch
                media == MediaSorted(all)
            IN  /\ Issue(FALSE)
                /\ comments' = all
                /\ UNCHANGED original_message
                /\ IF batch # <<>> /\ Len(batch) >= BatchSize
                     THEN /\ offset_id' = batch[1].id
                          /\ UNCHANGED <<pc, outcome, loopVars>>
                     ELSE /\ UNCHANGED offset_id
                          /\ IF media = <<>>
                               THEN End("NoContent") /\ UNCHANGED loopVars
                             ELSE /\ media_messages' = media
                                  /\ selected' = [i \in 1..Len(media) |-> media[i].id]
                                  /\ idx' = 1
                                  /\ downloaded' = 0
                                  /\ pc' = "download" /\ UNCHANGED outcome
    /\ UNCHANGED <<params, botVars, fsVars>>

\* One turn of the while True loop; when the loop ends, the media filter and
\* the sort.
TopicFetchBatch ==
    /\ flow = "topic" /\ pc = "batch"
    /\ \/ /\ Issue(TRUE)
          /\ End("Error")
          /\ UNCHANGED <<curVars, loopVars>>
       \/ \E batch \in ThreadBatches(offset_id, BatchSize) :
            LET all   == comments \o batch
                media == MediaSorted(all)
            IN  /\ Issue(FALSE)
                /\ comments' = all
                /\ UNCHANGED original_message
                /\ IF batch # <<>> /\ Len(batch) >= BatchSize
                     THEN /\ offset_id' = batch[Len(batch)].id
                          /\ UNCHANGED <<pc, outcome, loopVars>>
                     ELSE /\ UNCHANGED offset_id
                          /\ IF media = <<>>
                               THEN End("NoContent") /\ UNCHANGED loopVars
                             ELSE /\ media_messages' = media
                                  /\ selected' = [i \in 1..Len(media) |-> media[i].id]
                                  /\ idx' = 1
                                  /\ downloaded' = 0
                                  /\ pc' = "download" /\ UNCHANGED outcome
    /\ UNCHANGED <<params, botVars, fsVars>>

\* download_media_from_message for the next media message of the topic
TopicDownloadItem ==
    /\ flow = "topic" /\ pc = "download"
    /\ media_messages # <<>>
    /\ dirs' = IF ClassifyTopic(Head(media_messages)).ok
                 THEN dirs \cup {ClassifyTopic(Head(media_messages)).dir}
                 ELSE dirs
    /\ \E r \in ItemResults, ts \in ClockReads :
        /\ r # "ok" => ts = clock
        /\ TryItem(Head(media_messages), ClassifyTopic(Head(media_messages)), r, ts)
    /\ UNCHANGED <<params, botVars, curVars, selected, pc, outcome>>

\* the for loop is over: the summary is printed
TopicFinish ==
    /\ flow = "topic" /\ pc = "download"
    /\ media_messages = <<>>
    /\ End("Completed")
    /\ UNCHANGED <<params, botVars, curVars, loopVars, fsVars, rejected>>

ComNext == ComResolve \/ ComGetPost \/ ComFetchBatch \/ ComDownloadItem \/ ComFinish

TopicNext == TopicResolve \/ TopicFetchBatch \/ TopicDownloadItem \/ TopicFinish

Next == BotNext \/ ComNext \/ TopicNext

Spec == Init /\ [][Next]_vars

\* A run goes on while it can: every awaited call of the cursor flows returns
\* or raises, and the code between two awaits runs to the next one.
SpecFair == Spec /\ WF_vars(ComNext \/ TopicNext)

(* ----------------------- a thread served faithfully --------------------- *)
\* The cursor flows against a remote that holds one fixed thread (arg: under
\* every id a message or none) and answers a fetch with the messages of the
\* highest ids below the cursor, at most limit of them, newest first.
Threads == [MsgIds -> ThreadShapes \cup {Absent}]

FaithfulBatch(thread, offset, limit) ==
    LET below == SelectSeq(ServeFrom(thread, MaxMsgId),
                           LAMBDA m : offset = 0 \/ m.id < offset)
    IN  SubSeq(below, 1, Min(Len(below), limit))

FaithfulComFetch ==
    /\ ComFetchBatch
    /\ rejected' \/ comments' = comments \o FaithfulBatch(arg, offset_id, BatchSize)

FaithfulTopicFetch ==
    /\ TopicFetchBatch
    /\ rejected' \/ comments' = comments \o FaithfulBatch(arg, offset_id, BatchSize)

InitThread ==
    /\ flow \in {"comment", "topic"}
    /\ pc = "resolve" /\ outcome = "running"
    /\ max_pages = default_max_pages
    /\ start_from \in (IF flow = "comment" THEN StartFromArgs ELSE {default_start_from})
    /\ last_msg_id_before = 0 /\ downloaded_msg_ids = {}
    /\ total_downloaded = 0 /\ current_page = 1 /\ new_messages = <<>>
    /\ comments = <<>> /\ offset_id = 0 /\ original_message = "unfetched"
    /\ media_messages = <<>>
    /\ idx = 0 /\ downloaded = 0 /\ disk = {} /\ dirs = {"root"} /\ clock = 0
    /\ selected = <<>> /\ attempts = <<>> /\ renames = <<>>
    /\ fetches = 0 /\ clicks = 0 /\ rejected = FALSE
    /\ fn = "thread" /\ arg \in Threads /\ ret = <<>>

NextThread ==
    \/ ComResolve \/ ComGetPost \/ FaithfulComFetch \/ ComDownloadItem \/ ComFinish
    \/ TopicResolve \/ FaithfulTopicFetch \/ TopicDownloadItem \/ TopicFinish

SpecThread == InitThread /\ [][NextThread]_vars

(* ------------------------ function-level checks ------------------------- *)
\* The pure functions of the program applied to one argument: the state is
\* the function, its argument and its result; no run is in progress.
runVars == <<flow, pc, outcome, max_pages, start_from, last_msg_id_before,
             downloaded_msg_ids, total_downloaded, current_page, new_messages,
             comments, offset_id, original_message, media_messages, idx,
             downloaded, disk, dirs, clock, selected, attempts, renames, fetches,
             clicks, rejected>>

NoRun ==
    /\ flow = "none" /\ pc = "none" /\ outcome = "none"
    /\ max_pages = default_max_pages /\ start_from = default_start_from
    /\ last_msg_id_before = 0 /\ downloaded_msg_ids = {}
    /\ total_downloaded = 0 /\ current_page = 1 /\ new_messages = <<>>
    /\ comments = <<>> /\ offset_id = 0 /\ original_message = "unfetched"
    /\ media_messages = <<>>
    /\ idx = 0 /\ downloaded = 0 /\ disk = {} /\ dirs = {"root"} /\ clock = 0
    /\ selected = <<>> /\ attempts = <<>> /\ renames = <<>>
    /\ fetches = 0 /\ clicks = 0 /\ rejected = FALSE

Pending == [done |-> FALSE]

\* document.mime_type values, split at "/" (<<>>: the message has no document)
MimeTypes == { <<>>, <<"image", "png">>, <<"image", "svg+xml">>, <<"video", "webm">>,
               <<"video", "mp4">>, <<"application", "pdf">>, <<"audio", "ogg">>,
               <<"image">>, <<"video">>, <<"octet-stream">>, <<"">>,
               <<"images", "png">>, <<"videos", "webm">> }

\* every combination of msg.photo, msg.video and msg.document.mime_type
Payloads == [photo : BOOLEAN, video : BOOLEAN, mime : MimeTypes]

\* the type and folder decision of the three downloaders for one message
ApplyClassify ==
    /\ fn = "classify" /\ ~ret.done
    /\ ret' = [done |-> TRUE,
               bot     |-> ClassifyBot(arg),
               comment |-> ClassifyComment(arg),
               topic   |-> ClassifyTopic(arg)]
    /\ UNCHANGED <<runVars, fn, arg>>

(* link parsers *)
\* characters a path segment is written with
SegChars == {"0", "1", "7", "-", "+", "_", "a", " "}
Digits == {"0", "1", "2", "3", "4", "5", "6", "7", "8", "9"}
DigitVal(c) == CASE c = "0" -> 0 [] c = "1" -> 1 [] c = "2" -> 2 [] c = "3" -> 3
                 [] c = "4" -> 4 [] c = "5" -> 5 [] c = "6" -> 6 [] c = "7" -> 7
                 [] c = "8" -> 8 [] c = "9" -> 9

RECURSIVE LStrip(_)
LStrip(t) == IF t # <<>> /\ Head(t) = " " THEN LStrip(Tail(t)) ELSE t
RECURSIVE RStrip(_)
RStrip(t) == IF t # <<>> /\ t[Len(t)] = " " THEN RStrip(SubSeq(t, 1, Len(t) - 1)) ELSE t

\* the digits of an int() literal: at least one, single underscores between two
ValidIntBody(b) ==
    /\ b # <<>>
    /\ \A i \in 1..Len(b) :
          \/ b[i] \in Digits
          \/ /\ b[i] = "_" /\ i > 1 /\ i < Len(b)
             /\ b[i - 1] \in Digits /\ b[i + 1] \in Digits

RECURSIVE IntBodyValue(_, _)
IntBodyValue(b, acc) ==
    IF b = <<>> THEN acc
    ELSE IF Head(b) = "_" THEN IntBodyValue(Tail(b), acc)
    ELSE IntBodyValue(Tail(b), 10 * acc + DigitVal(Head(b)))

\* Python's int(text): surrounding whitespace dropped, an optional sign, then
\* the digits; anything else raises ValueError
PyInt(text) ==
    LET t      == RStrip(LStrip(text))
        signed == t # <<>> /\ t[1] \in {"+", "-"}
        body   == IF signed THEN Tail(t) ELSE t
    IN  IF ValidIntBody(body)
          THEN [ok |-> TRUE,
                val |-> IF signed /\ t[1] = "-" THEN 0 - IntBodyValue(body, 0)
                        ELSE IntBodyValue(body, 0)]
          ELSE [ok |-> FALSE, val |-> 0]

AllowedHosts == {"t.me", "telegram.me", "www.t.me", "www.telegram.me"}

\* username.startswith("@") -> username[1:]
DropAt(name) == IF name # <<>> /\ Head(name) = "@" THEN Tail(name) ELSE name

Failed(why) == [done |-> TRUE, ok |-> FALSE, error |-> why]

\* channel_comments_downloader.parse_channel_post_link; url is the link as
\* urlparse splits it: netloc and the non-empty path segments
parse_channel_post_link(url) ==
    IF url.netloc \notin AllowedHosts THEN Failed("NotTelegramLink")
    ELSE IF Len(url.parts) < 2 THEN Failed("IncompletePath")
    ELSE IF ~PyInt(url.parts[2]).ok THEN Failed("InvalidMessageId")
    ELSE [done |-> TRUE, ok |-> TRUE,
          username |-> DropAt(url.parts[1]), id |-> PyInt(url.parts[2]).val]

\* topic_downloader.parse_topic_link
parse_topic_link(url) ==
    IF url.netloc \notin AllowedHosts THEN Failed("NotTelegramLink")
    ELSE IF Len(url.parts) >= 2 THEN
        IF PyInt(url.parts[2]).ok
          THEN [done |-> TRUE, ok |-> TRUE,
                username |-> DropAt(url.parts[1]), id |-> PyInt(url.parts[2]).val]
          ELSE Failed("InvalidMessageId")
    ELSE Failed("IncompletePath")

Segments == UNION {[1..n -> SegChars] : n \in 1..MaxSegLen}

Links ==
    [netloc : {"t.me", "example.org"},
     parts  : {<<>>, << <<"c">> >>}
              \cup {<<u, sg>> : u \in {<<"c">>, <<"@", "c">>}, sg \in Segments}
              \cup {<< <<"c">>, sg, <<"7">> >> : sg \in Segments}]

ApplyParsePostLink ==
    /\ fn = "parse_channel_post_link" /\ ~ret.done
    /\ ret' = parse_channel_post_link(arg)
    /\ UNCHANGED <<runVars, fn, arg>>

ApplyParseTopicLink ==
    /\ fn = "parse_topic_link" /\ ~ret.done
    /\ ret' = parse_topic_link(arg)
    /\ UNCHANGED <<runVars, fn, arg>>

(* format_bytes *)
\* A byte count n = hi * 1024^2 + lo with 0 <= lo < 1024^2.  After k passes of
\* "bytes_size /= 1024.0" the float holds n / 1024^k exactly (a division by a
\* power of two), so the loop is followed on n and k.
RECURSIVE Pow1024(_)
Pow1024(k) == IF k = 0 THEN 1 ELSE 1024 * Pow1024(k - 1)

UNITS == <<"B", "KB", "MB", "GB", "TB">>

\* the comparison with <= for <
Below1024_Inclusive(n, k) ==
    IF k <= 1 THEN n.hi = 0 /\ n.lo <= Pow1024(k + 1)
    ELSE n.hi < Pow1024(k - 1) \/ (n.hi = Pow1024(k - 1) /\ n.lo = 0)

\* bytes_size < 1024.0 after k divisions: n < 1024^(k + 1)
Below1024(n, k) ==
    IF k <= 1 THEN n.hi = 0 /\ n.lo < Pow1024(k + 1)
    ELSE n.hi < Pow1024(k - 1)

RECURSIVE UnitLoop(_, _)
\* for unit in ['B', 'KB', 'MB', 'GB']: ...; the fall-through is TB
UnitLoop(n, k) ==
    IF k = 4 THEN 4
    ELSE IF Below1024(n, k) THEN k
    ELSE UnitLoop(n, k + 1)

\* round to the nearest integer, a tie to the even one
RoundHalfEven(q, twiceRem, divisor) ==
    IF twiceRem > divisor \/ (twiceRem = divisor /\ q % 2 = 1) THEN q + 1 ELSE q

\* f"{bytes_size:.2f}" for bytes_size = n / 1024^k: the hundredths printed.
\* 100 n = H * 1024^2 + L with 0 <= L < 1024^2.
Hundredths(n, k) ==
    LET H == 100 * n.hi + (100 * n.lo) \div Pow1024(2)
        L == (100 * n.lo) % Pow1024(2)
    IN  IF k <= 2
          THEN RoundHalfEven(H * Pow1024(2 - k) + L \div Pow1024(k),
                             2 * (L % Pow1024(k)), Pow1024(k))
          ELSE LET D == Pow1024(k - 2)
                   r == H % D
               IN  RoundHalfEven(H \div D,
                                 IF L > 0 /\ 2 * r >= D THEN 2 * r + 1 ELSE 2 * r, D)

\* the text: integer part, ".", two decimals, unit
format_bytes(n) ==
    LET k == UnitLoop(n, 0)
        h == Hundredths(n, k)
    IN  [done |-> TRUE, unit |-> UNITS[k + 1], hundredths |-> h,
         text |-> NatDigits(h \div 100) \o <<".">> \o ZeroPad(NatDigits(h % 100), 2)
                  \o <<UNITS[k + 1]>>]

ByteCounts ==
    [hi : {0, 1, 2, 1023, 1024, 1025, 1536, 1048575, 1048576, 3146240},
     lo : {0, 1, 512, 1023, 1024, 1025, 1152, 1408, 5243, 524288, 1048575}]

ApplyFormatBytes ==
    /\ fn = "format_bytes" /\ ~ret.done
    /\ ret' = format_bytes(arg)
    /\ UNCHANGED <<runVars, fn, arg>>

(* find_next_page_button *)
\* the buttons a keyboard is made of
ButtonPool == {ArrowBtn, InfoBtn, Page2Btn, Page3Btn, FakeArrow, UrlBtn,
               Btn(<<"ARROW_B", "2">>, "fwd")}

\* keyboards of one row of 1..MaxRowLen buttons, or of two rows of one button
Keyboards ==
    { <<row>> : row \in UNION {[1..n -> ButtonPool] : n \in 1..MaxRowLen} }
    \cup { << <<a>>, <<b>> >> : a \in ButtonPool, b \in ButtonPool }

\* a page whose newest message carries the keyboard, on page 1 or 2
ButtonSearches ==
    { [messages |-> << Msg(2, Shape(FALSE, NoMedia, kb)),
                       Msg(1, Shape(FALSE, Photo, NoButtons)) >>,
       page |-> p] : kb \in Keyboards, p \in 1..2 }

ApplyFindNextPageButton ==
    /\ fn = "find_next_page_button" /\ ~ret.done
    /\ ret' = [done |-> TRUE, res |-> find_next_page_button(arg.messages, arg.page)]
    /\ UNCHANGED <<runVars, fn, arg>>

UnitArgs(f) ==
    CASE f = "find_next_page_button" -> ButtonSearches
      [] f = "format_bytes" -> ByteCounts
      [] f = "classify" -> {Msg(1, Shape(FALSE, p, NoButtons)) : p \in Payloads}
      [] f = "parse_channel_post_link" -> Links
      [] f = "parse_topic_link" -> Links

UnitFns == {"classify", "parse_channel_post_link", "parse_topic_link", "format_bytes",
            "find_next_page_button"}

InitUnit ==
    /\ NoRun
    /\ fn \in UnitFns
    /\ arg \in UnitArgs(fn)
    /\ ret = Pending

NextUnit ==
    \/ ApplyClassify \/ ApplyParsePostLink \/ ApplyParseTopicLink \/ ApplyFormatBytes
    \/ ApplyFindNextPageButton

SpecUnit == InitUnit /\ [][NextUnit]_vars

(* --------------------------- progress reporter -------------------------- *)
\* progress_callback(filename) and the callback it returns. Clock readings are
\* whole milliseconds; arg holds the closure's variables (and two history
\* flags: called, printed), ret what the last invocation did.
throttle_ms == 300

TickMs == 150
MaxTicks == 4
MaxBytes == 2

Times == {k * TickMs : k \in 0..MaxTicks}

progress_callback(now) ==
    [start_time |-> now, last_update_time |-> now, last_downloaded |-> 0,
     called |-> FALSE, printed |-> FALSE]

\* now - last_update_time < 0.3 on the floats time.time() returns: decided by
\* the difference, except at exactly 300 ms where the rounding of the two
\* second-valued floats puts their difference on either side of 0.3
WithinThrottle(last, now) ==
    IF now - last = throttle_ms THEN BOOLEAN ELSE {now - last < throttle_ms}

\* the early return, with the completion test left out
Suppressed_AlsoComplete(within, current, total) == within

\* the early return
Suppressed(within, current, total) == within /\ current < total

\* the divisors of the divisions an emitting invocation performs: total for
\* the percentage and the bar, elapsed for the speed, the speed (positive
\* exactly when current is) for the remaining time
Divisors(current, total, elapsed) ==
    (IF total > 0 THEN {total} ELSE {})
        \cup (IF elapsed > 0 THEN {elapsed} ELSE {})
        \cup (IF elapsed > 0 /\ current > 0 /\ current < total THEN {current} ELSE {})

\* callback(current, total) of reporter r, reading the clock as now
callback(r, current, total, now, within) ==
    IF Suppressed(within, current, total)
    THEN [emitted |-> FALSE, state |-> r]
    ELSE [emitted |-> TRUE,
          percent |-> IF total > 0 THEN [num |-> current * 100, den |-> total]
                                   ELSE [num |-> 0, den |-> 1],
          raised  |-> 0 \in Divisors(current, total, now - r.start_time),
          state   |-> [r EXCEPT !.last_update_time = now, !.last_downloaded = current,
                                !.printed = TRUE]]

\* a transfer starts: a new reporter for its file
ProgressCreate ==
    /\ fn = "progress_callback" /\ ret.done
    /\ \E now \in Times : arg' = progress_callback(now)
    /\ ret' = Pending
    /\ UNCHANGED <<runVars, fn>>

\* the transfer reports (current, total)
ProgressCall ==
    /\ fn = "progress_callback"
    /\ \E current \in 0..MaxBytes, total \in 0..MaxBytes, now \in Times :
         \E within \in WithinThrottle(arg.last_update_time, now) :
            LET out == callback(arg, current, total, now, within)
            IN  /\ arg' = [out.state EXCEPT !.called = TRUE]
                /\ ret' = [done |-> TRUE, current |-> current, total |-> total,
                           now |-> now, since |-> arg.last_update_time,
                           first |-> ~arg.called, out |-> out]
    /\ UNCHANGED <<runVars, fn>>

InitProgress ==
    /\ NoRun
    /\ fn = "progress_callback"
    /\ \E now \in Times : arg = progress_callback(now)
    /\ ret = Pending

NextProgress == ProgressCreate \/ ProgressCall

SpecProgress == InitProgress /\ [][NextProgress]_vars

(* ------------------------------- claims --------------------------------- *)
\* C1: in every run of the three flows a source message id contributes at
\* most one finally renamed file: no two successful renames of a run are for
\* the same message id.
C1_OneFilePerMessage ==
    \A i, j \in 1..Len(renames) : renames[i].id = renames[j].id => i = j

\* a bot run that fetched a second page after files were renamed on the first
C1_Witness ==
    /\ flow = "bot" /\ pc = "ended"
    /\ fetches >= 2
    /\ \E i, j \in 1..Len(attempts) : attempts[i].page = 1 /\ attempts[j].page = 2
    /\ Len(renames) >= 2

\* C2: with max-pages = m > 0 the bot loop issues at most m page fetches and
\* never starts page m + 1; when it stops on the limit, m pages were fetched.
C2_PageLimit ==
    (flow = "bot" /\ max_pages > 0) =>
        /\ fetches <= max_pages
        /\ current_page <= max_pages + 1
        /\ (pc = "download" => current_page <= max_pages)
        /\ (outcome = "PageLimit" => fetches = max_pages /\ clicks = max_pages)

\* the limit stopped a run whose last page still showed a next-page button
C2_Witness ==
    /\ flow = "bot" /\ max_pages = MaxPagesArg /\ max_pages > 1
    /\ outcome = "PageLimit"
    /\ fetches = max_pages

\* C3: no two successfully persisted items of a run receive the same final
\* path, whatever downloads fail and even when the clock repeats a millisecond.
C3_NoPathCollision ==
    \A i, j \in 1..Len(renames) : renames[i].path = renames[j].path => i = j

\* ids of the attempts of the running page (bot) or of the run (comment, topic)
PageAttemptIds ==
    LET a == SelectSeq(attempts, LAMBDA x : x.page = current_page)
    IN  [i \in 1..Len(a) |-> a[i].id]

RemainingIds == [i \in 1..Len(media_messages) |-> media_messages[i].id]

RenamedIds == {renames[i].id : i \in 1..Len(renames)}

\* C4: a failing item never ends the download loop: at every point of the loop
\* the items attempted so far followed by the items still queued are the items
\* selected for the page or batch, and when the loop is over all were attempted.
C4_AllAttempted ==
    /\ media_messages # <<>> => pc = "download"
    /\ pc = "download" => PageAttemptIds \o RemainingIds = selected
    /\ outcome \in {"Completed", "Done"} => PageAttemptIds = selected

\* a loop that is over, whose first item failed and whose last item was renamed
C4_Witness ==
    /\ pc = "download" /\ media_messages = <<>>
    /\ Len(selected) >= 2
    /\ selected[1] \notin RenamedIds
    /\ selected[Len(selected)] \in RenamedIds

\* C5 as stated: once the bot loop has been entered, the run ends only by the
\* page limit, by a fetch without new messages, or for want of a next-page button.
C5_ThreeExits ==
    (flow = "bot" /\ pc = "ended" /\ fetches >= 1) =>
        outcome \in {"PageLimit", "Stalled", "Done"}

\* C5 amended: the bot loop ends in one of four ways: the page limit, a fetch
\* without new messages, no next-page button, or a request made inside the loop
\* (the page fetch or the click) being rejected, which ends the run with the
\* error; a failing download never ends it.
C5_FourExits ==
    (flow = "bot" /\ pc = "ended" /\ fetches >= 1) =>
        /\ outcome \in {"PageLimit", "Stalled", "Done", "Error"}
        /\ outcome = "PageLimit" => max_pages > 0 /\ current_page > max_pages
        /\ outcome = "Stalled" => fetches = clicks + 1 /\ ~rejected
        /\ outcome = "Done" =>
              /\ fetches = clicks + 1
              /\ ~find_next_page_button(new_messages, current_page).found
        /\ outcome = "Error" => rejected /\ media_messages = <<>>

\* a run ended by a rejected request on its second page
C5_Witness ==
    /\ flow = "bot" /\ pc = "ended" /\ outcome = "Error"
    /\ fetches >= 2

\* media comments retrieved, and the 1-based position of one in ascending order
CommentMediaIds == {comments[i].id : i \in {j \in 1..Len(comments) : HasMedia(comments[j])}}
PositionOf(id) == Cardinality({j \in CommentMediaIds : j <= id})

\* C6: comment flow, n media comments, 1 <= start-from = s <= n: exactly the
\* n - s + 1 media comments at positions s..n of the ascending id order are
\* attempted, in that order, the one at position k with sequence index k.
C6_StartFrom ==
    (/\ flow = "comment" /\ outcome = "Completed"
     /\ start_from >= 1 /\ start_from <= Cardinality(CommentMediaIds)) =>
        /\ Len(attempts) = Cardinality(CommentMediaIds) - start_from + 1
        /\ \A k \in 1..Len(attempts) :
              /\ attempts[k].idx = start_from + k - 1
              /\ PositionOf(attempts[k].id) = attempts[k].idx

\* start-from 2 of 3 media comments: two attempts, indices 2 and 3
C6_Witness ==
    /\ flow = "comment" /\ outcome = "Completed"
    /\ start_from = 2 /\ Cardinality(CommentMediaIds) = 3
    /\ Len(attempts) = 2 /\ attempts[1].idx = 2 /\ attempts[2].idx = 3

\* a button that counts as a next-page control on the given page
Qualifies(btn, page) ==
    /\ btn.data \notin {"", "page_info"}
    /\ \/ \E i \in 1..Len(btn.text) : btn.text[i] \in {"ARROW_A", "ARROW_B"}
       \/ Contains(btn.text, NatDigits(page + 1))

NoQualifyingButton(messages, page) ==
    \A i \in 1..Len(messages) : \A r \in 1..Len(messages[i].buttons) :
        \A b \in 1..Len(messages[i].buttons[r]) :
            ~Qualifies(messages[i].buttons[r][b], page)

\* the folder of a payload's kind: image sub-folder, video sub-folder or root
KindDir(p) ==
    IF p.photo THEN "images"
    ELSE IF p.video THEN "videos"
    ELSE IF Len(p.mime) >= 2 /\ p.mime[1] = "image" THEN "images"
    ELSE IF Len(p.mime) >= 2 /\ p.mime[1] = "video" THEN "videos"
    ELSE "root"

InboundMedia(messages) ==
    {i \in 1..Len(messages) : ~messages[i].out /\ HasMedia(messages[i])}

\* the first page brought k >= 1 inbound media messages, all were renamed, and
\* no message of the page carries a qualifying button
C7_Case ==
    /\ flow = "bot" /\ pc = "ended" /\ fetches = 1
    /\ InboundMedia(new_messages) # {}
    /\ \A i \in InboundMedia(new_messages) : new_messages[i].id \in RenamedIds
    /\ NoQualifyingButton(new_messages, 1)

\* C7: in that case the run ends after the one page in Done without a click,
\* totalDownloaded = k, and each message has exactly one final file, in the
\* folder of its kind.
C7_SinglePageDone ==
    C7_Case =>
        /\ outcome = "Done" /\ clicks = 0
        /\ total_downloaded = Cardinality(InboundMedia(new_messages))
        /\ Cardinality(disk) = Cardinality(InboundMedia(new_messages))
        /\ \A i \in InboundMedia(new_messages) :
              /\ Cardinality({f \in disk : f.id = new_messages[i].id}) = 1
              /\ \A f \in disk : f.id = new_messages[i].id =>
                    f.path.dir = KindDir(new_messages[i].payload)

\* two media messages on the only page, one of them a photo
C7_Witness ==
    /\ C7_Case
    /\ Cardinality(InboundMedia(new_messages)) = 2
    /\ \E f \in disk : f.path.dir = "images" /\ f.path.ext = "jpg"
    /\ total_downloaded = 2

NoMediaIn(messages) == \A i \in 1..Len(messages) : ~HasMedia(messages[i])

\* C8: when no retrieved message carries media the comment and the topic run
\* end in NoContent with no download attempt, no file and no directory besides
\* the root; a bot page whose new messages carry no media attempts no download
\* and creates no directory.
C8_NoContent ==
    /\ (/\ flow \in {"comment", "topic"}
        /\ outcome \in {"NoContent", "Completed", "StartBeyond"}
        /\ NoMediaIn(comments)) =>
            outcome = "NoContent" /\ attempts = <<>> /\ disk = {} /\ dirs = {"root"}
    /\ (flow \in {"comment", "topic"} /\ outcome = "NoContent") =>
            NoMediaIn(comments) /\ attempts = <<>> /\ dirs = {"root"}
    /\ (flow = "bot" /\ pc = "download" /\ NoMediaIn(new_messages)) =>
            /\ media_messages = <<>>
            /\ PageAttemptIds = <<>>
            /\ fetches = 1 => (attempts = <<>> /\ disk = {} /\ dirs = {"root"})

\* a topic of two messages without media
C8_Witness ==
    /\ flow = "topic" /\ outcome = "NoContent"
    /\ Len(comments) = 2 /\ dirs = {"root"}

\* C9: once flood control has rejected a request the run halts: the step that
\* follows a rejection issues no transfer, no fetch and no click.
C9_HaltOnFlood ==
    [][rejected => /\ attempts' = attempts
                   /\ fetches' = fetches
                   /\ clicks' = clicks
                   /\ comments' = comments]_vars

\* C10: a file renamed to its final path stays in place for the rest of the
\* run: every rename of the run is still on disk, under its path, with the
\* content of its message.
C10_FilesStay ==
    \A i \in 1..Len(renames) :
        [path |-> renames[i].path, id |-> renames[i].id] \in disk

\* the decision order of the classification, written out case by case
C11_Expected(p) ==
    CASE p.photo -> [ok |-> TRUE, ext |-> "jpg", dir |-> "images"]
      [] ~p.photo /\ p.video -> [ok |-> TRUE, ext |-> "mp4", dir |-> "videos"]
      [] ~p.photo /\ ~p.video /\ p.mime = <<>> -> [ok |-> FALSE, ext |-> "", dir |-> "root"]
      [] ~p.photo /\ ~p.video /\ Len(p.mime) = 1 ->
            [ok |-> TRUE, ext |-> "bin", dir |-> "root"]
      [] ~p.photo /\ ~p.video /\ Len(p.mime) >= 2 ->
            [ok |-> TRUE, ext |-> p.mime[Len(p.mime)],
             dir |-> CASE p.mime[1] = "image" -> "images"
                       [] p.mime[1] = "video" -> "videos"
                       [] OTHER -> "root"]

\* C11: classification follows photo -> jpg in the image folder, else video ->
\* mp4 in the video folder, else by the document MIME: image/* and video/* to
\* their folders with the subtype as extension, anything else to the root with
\* the subtype (bin without a "/") as extension; video/webm gives webm in the
\* video folder; the three downloaders decide alike for every message.
C11_Classification ==
    (fn = "classify" /\ ret.done) =>
        /\ ret.bot = C11_Expected(arg.payload)
        /\ ret.comment = ret.bot
        /\ ret.topic = ret.bot
        /\ arg.payload = WebmDoc => ret.topic = [ok |-> TRUE, ext |-> "webm", dir |-> "videos"]

\* a video/webm document, classified
C11_Witness ==
    /\ fn = "classify" /\ ret.done
    /\ arg.payload = WebmDoc
    /\ ret.bot.ext = "webm"

\* C12: comment flow: when the parent post does not exist or its comment count
\* is zero the run ends in NoComments, with no comment batch fetched and no
\* download attempted.
C12_NoComments ==
    (flow = "comment" /\ original_message \in {"missing", "no_replies", "zero_replies"}) =>
        /\ pc = "ended" /\ outcome = "NoComments"
        /\ comments = <<>> /\ attempts = <<>>

\* C13: bot flow: a run fails with BotNotFound only at the resolution of the
\* username, the first request of the run: nothing was requested before it
\* (no watermark fetch, no command sent, no page fetched, no download, no
\* click) and the failing step changes nothing but the end of the run.
C13_BotNotFoundFirst ==
    [][outcome' = "BotNotFound" =>
          /\ flow = "bot" /\ pc = "resolve"
          /\ fetches = 0 /\ clicks = 0 /\ attempts = <<>> /\ disk = {}
          /\ last_msg_id_before = 0 /\ new_messages = <<>>
          /\ UNCHANGED <<botVars, loopVars, fsVars>>]_vars

\* a bot run that ended with the username unresolved
C13_Witness ==
    /\ flow = "bot" /\ pc = "ended" /\ outcome = "BotNotFound"
    /\ rejected = FALSE

C14_Parsing == fn \in {"parse_channel_post_link", "parse_topic_link"} /\ ret.done

\* C14: the channel-post parser and the topic parser accept a link only if
\* its second path segment is a non-negative integer, and return that integer;
\* every other second segment, a negative number included, fails with
\* InvalidMessageId.
C14_NonNegativeId ==
    (C14_Parsing /\ arg.netloc \in AllowedHosts /\ Len(arg.parts) >= 2) =>
        /\ ret.ok => ret.id >= 0
        /\ (\A i \in 1..Len(arg.parts[2]) : arg.parts[2][i] \in Digits) =>
              ret.ok /\ ret.id = IntBodyValue(arg.parts[2], 0)
        /\ ~ret.ok => ret.error = "InvalidMessageId"

\* the unit the 1024-based boundaries give a byte count
C15_UnitOf(n) ==
    CASE n.hi = 0 /\ n.lo < 1024 -> "B"
      [] n.hi = 0 /\ n.lo >= 1024 -> "KB"
      [] n.hi >= 1 /\ n.hi < 1024 -> "MB"
      [] n.hi >= 1024 /\ n.hi < 1024 * 1024 -> "GB"
      [] n.hi >= 1024 * 1024 -> "TB"

C15_Abs(x) == IF x < 0 THEN 0 - x ELSE x

\* C15: format_bytes picks the unit by the boundaries 1024, 1024^2, 1024^3,
\* 1024^4 and prints the count divided by the unit's power of 1024 with two
\* decimals: the printed hundredths are within half a hundredth of the quotient
\* (for MB and above: measured on 100 n cut to whole multiples of 1024^2);
\* 1023 -> 1023.00B, 1024 -> 1.00KB, 1048576 -> 1.00MB.
C15_FormatBytes ==
    (fn = "format_bytes" /\ ret.done) =>
        /\ ret.unit = C15_UnitOf(arg)
        /\ ret.unit = "B" => ret.hundredths = 100 * arg.lo
        /\ ret.unit = "KB" => 2 * C15_Abs(100 * arg.lo - 1024 * ret.hundredths) <= 1024
        /\ ret.unit = "MB" =>
              C15_Abs(100 * arg.hi + (100 * arg.lo) \div (1024 * 1024) - ret.hundredths) <= 1
        /\ ret.unit = "GB" =>
              2 * C15_Abs(100 * arg.hi - 1024 * ret.hundredths) <= 1024 + 200
        /\ ret.unit = "TB" =>
              2 * C15_Abs(100 * arg.hi - 1024 * 1024 * ret.hundredths) <= 1024 * 1024 + 200
        /\ arg = [hi |-> 0, lo |-> 1023] =>
              ret.text = <<"1", "0", "2", "3", ".", "0", "0", "B">>
        /\ arg = [hi |-> 0, lo |-> 1024] => ret.text = <<"1", ".", "0", "0", "KB">>
        /\ arg = [hi |-> 1, lo |-> 0] => ret.text = <<"1", ".", "0", "0", "MB">>

\* 1024 bytes, formatted
C15_Witness ==
    /\ fn = "format_bytes" /\ ret.done
    /\ arg = [hi |-> 0, lo |-> 1024]
    /\ ret.unit = "KB"

\* C16: bot flow: a media message's id is in the dedup set before its download
\* is attempted (queued and attempted items are all marked), an id is marked
\* once (the messages of the running page were on no earlier page), and so no
\* message is attempted twice in a run, whether its download failed or not.
C16_MarkedBeforeAttempt ==
    flow = "bot" =>
        /\ \A i \in 1..Len(media_messages) : media_messages[i].id \in downloaded_msg_ids
        /\ \A i \in 1..Len(attempts) : attempts[i].id \in downloaded_msg_ids
        /\ pc = "download" =>
              \A i \in 1..Len(new_messages) : \A j \in 1..Len(attempts) :
                  attempts[j].page < current_page => attempts[j].id # new_messages[i].id
        /\ \A i, j \in 1..Len(attempts) : attempts[i].id = attempts[j].id => i = j

\* a second page is being downloaded after a download of the first page failed
C16_Witness ==
    /\ flow = "bot" /\ pc = "download" /\ current_page = 2
    /\ \E i \in 1..Len(attempts) :
          attempts[i].page = 1 /\ attempts[i].id \notin RenamedIds
    /\ \E i \in 1..Len(attempts) : attempts[i].page = 2

\* C17: bot flow: the sequence indices of the download attempts of a run are
\* unique across pages: no two attempts, succeeded or failed, on the same page
\* or on different pages, have the same index (and so none share a temporary
\* path of the same folder and extension).
C17_UniqueIndices ==
    flow = "bot" =>
        \A i, j \in 1..Len(attempts) : attempts[i].idx = attempts[j].idx => i = j

\* C18: bot flow: total_downloaded never decreases, and at every page boundary
\* and at the end of the run it is the number of items whose transfer and
\* rename both succeeded; failed items are not counted.
C18_CountsSuccesses ==
    [][flow = "bot" =>
          /\ total_downloaded' >= total_downloaded
          /\ pc' \in {"loop", "ended"} => total_downloaded' = Len(renames')
          /\ pc' = "download" => total_downloaded' + downloaded' = Len(renames')]_vars

\* a run of two pages that ended with fewer files counted than attempts made
C18_Witness ==
    /\ flow = "bot" /\ pc = "ended" /\ outcome = "Done"
    /\ current_page = 2
    /\ total_downloaded >= 1
    /\ Len(attempts) > total_downloaded
    /\ \E i \in 1..Len(renames) : \E j \in 1..Len(attempts) :
          attempts[j].id = renames[i].id /\ attempts[j].page = 1

\* ids of the messages the previous page fetch found new
C19_KnownIds == {new_messages[i].id : i \in 1..Len(new_messages)}

\* C19: bot flow: a fetch after which the bot has produced no further message
\* (nothing but the user's own messages and the messages the previous fetch
\* already found) stops the loop as Stalled, with no download attempt and no
\* click: the loop goes on to process a page only if the fetch found a message
\* of the bot that the previous fetch had not found.
C19_StalledWithoutNews ==
    [][(flow = "bot" /\ pc = "loop") =>
          /\ pc' = "download" =>
                \E i \in 1..Len(new_messages') :
                    ~new_messages'[i].out /\ new_messages'[i].id \notin C19_KnownIds
          /\ outcome' = "Stalled" => attempts' = attempts /\ clicks' = clicks]_vars

\* C20: bot flow: no message whose id is at or below the watermark is ever
\* downloaded, and no button of such a message is ever clicked.
C20_AboveWatermark ==
    [][flow = "bot" =>
          /\ \A i \in 1..Len(attempts') : attempts'[i].id > last_msg_id_before'
          /\ clicks' > clicks =>
                /\ find_next_page_button(new_messages, current_page).found
                /\ find_next_page_button(new_messages, current_page).msg
                      > last_msg_id_before]_vars

\* with a watermark of 1, a download was made and a button was clicked
C20_Witness ==
    /\ flow = "bot" /\ last_msg_id_before = MaxWatermark /\ MaxWatermark >= 1
    /\ attempts # <<>> /\ clicks >= 1

\* C21: download attempts are issued in strictly ascending message-id order,
\* within each page of the bot flow and over the whole run of the comment and
\* the topic flow (whose attempts all belong to one pass), although the remote
\* serves the messages newest first.
C21_AscendingAttempts ==
    \A i, j \in 1..Len(attempts) :
        (i < j /\ attempts[i].page = attempts[j].page) =>
            attempts[i].id < attempts[j].id

\* a topic whose messages, served newest first, were all attempted
C21_Witness ==
    /\ Len(attempts) >= 2
    /\ attempts[1].page = attempts[2].page
    /\ flow = "topic"
    /\ Len(comments) = MaxMsgId /\ Len(attempts) = MaxMsgId

\* the received messages of the page that show buttons
C22_WithButtons == {i \in 1..Len(new_messages) :
                      ~new_messages[i].out /\ new_messages[i].buttons # <<>>}

\* the most recent of them (0 when there is none)
C22_Newest ==
    IF C22_WithButtons = {} THEN 0
    ELSE CHOOSE i \in C22_WithButtons :
            \A j \in C22_WithButtons : new_messages[j].id <= new_messages[i].id

C22_NewestQualifies ==
    /\ C22_Newest # 0
    /\ \E r \in 1..Len(new_messages[C22_Newest].buttons) :
          \E b \in 1..Len(new_messages[C22_Newest].buttons[r]) :
              Qualifies(new_messages[C22_Newest].buttons[r][b], current_page)

\* C22: the next-page control is taken only from the most recent message
\* that has buttons: the search finds a button exactly when that message has a
\* qualifying one, the button found belongs to that message, and when it has
\* none the run stops as Done without a click, even if an older message of
\* the page shows a qualifying button.
C22_NewestMessageOnly ==
    [][(flow = "bot" /\ pc = "download" /\ media_messages = <<>>) =>
          /\ find_next_page_button(new_messages, current_page).found
                <=> C22_NewestQualifies
          /\ C22_NewestQualifies =>
                find_next_page_button(new_messages, current_page).msg
                    = new_messages[C22_Newest].id
          /\ ~C22_NewestQualifies => outcome' = "Done" /\ clicks' = clicks
          /\ clicks' > clicks => C22_NewestQualifies]_vars

\* a run that ended as Done on a page whose newest message with buttons has
\* no qualifying button while an older one shows a forward arrow
C22_Witness ==
    /\ flow = "bot" /\ pc = "ended" /\ outcome = "Done"
    /\ C22_Newest # 0 /\ ~C22_NewestQualifies
    /\ \E i \in C22_WithButtons :
          /\ new_messages[i].id < new_messages[C22_Newest].id
          /\ new_messages[i].buttons = ArrowRow

\* the buttons of the message examined, and those that remain after the
\* page-indicator and the buttons without a callback token are left out
C23_Buttons == Flatten(arg.messages[1].buttons)
C23_Remaining == {i \in 1..Len(C23_Buttons) : C23_Buttons[i].data \notin {"", "page_info"}}
C23_IsArrow(btn) == \E i \in 1..Len(btn.text) : btn.text[i] \in {"ARROW_A", "ARROW_B"}

\* C23: the selected next-page button is one of the remaining buttons of the
\* message examined: never a page-indicator, never one without a callback
\* token; if a remaining button shows a forward arrow the selected one is an
\* arrow button; a button showing the number current page + 1 is selected only
\* when no arrow button remains; nothing is selected only when no remaining
\* button shows an arrow or that number.
C23_ArrowBeforeNumber ==
    (fn = "find_next_page_button" /\ ret.done) =>
        /\ ret.res.found =>
              /\ \E i \in C23_Remaining : C23_Buttons[i] = ret.res.btn
              /\ ret.res.btn.data \notin {"", "page_info"}
              /\ (\E i \in C23_Remaining : C23_IsArrow(C23_Buttons[i]))
                    => C23_IsArrow(ret.res.btn)
              /\ ~C23_IsArrow(ret.res.btn) =>
                    Contains(ret.res.btn.text, NatDigits(arg.page + 1))
        /\ ~ret.res.found =>
              \A i \in C23_Remaining :
                  /\ ~C23_IsArrow(C23_Buttons[i])
                  /\ ~Contains(C23_Buttons[i].text, NatDigits(arg.page + 1))

\* a keyboard with a page-indicator arrow, the next page number and a real
\* arrow: the real arrow is selected
C23_Witness ==
    /\ fn = "find_next_page_button" /\ ret.done
    /\ arg.page = 1
    /\ C23_Buttons = <<FakeArrow, Page2Btn, ArrowBtn>>
    /\ ret.res.btn = ArrowBtn

\* C24: bot flow: every next-page click is followed by a fetch of the page it
\* loaded: a run that left the loop has fetched one page more than it clicked,
\* and with max-pages = m > 0 at most m - 1 clicks are issued, none after the
\* last permitted page.
C24_ClickThenFetch ==
    flow = "bot" =>
        /\ max_pages > 0 => clicks <= max_pages - 1
        /\ (pc = "ended" /\ outcome \in {"PageLimit", "Done", "Stalled"} /\ fetches >= 1)
              => fetches = clicks + 1

\* C25: comment and topic flow: the batch loop stops exactly when a batch is
\* empty or shorter than the batch size, and otherwise fetches again with the
\* cursor at the id of the last message received; no download is attempted
\* while the loop runs; and, the thread being finite and served below the
\* cursor, the loop ends and the run with it.
C25_BatchLoop ==
    /\ [][(flow \in {"comment", "topic"} /\ pc = "batch" /\ outcome' # "Error") =>
            /\ pc' = "batch" <=> Len(comments') - Len(comments) >= BatchSize
            /\ pc' = "batch" => offset_id' = comments'[Len(comments')].id
            /\ attempts = <<>>]_vars
    /\ (flow \in {"comment", "topic"}) ~> (pc = "ended")

\* a thread of exactly one full batch: a second, empty batch ended the loop
C25_Witness ==
    /\ flow = "topic" /\ pc = "download"
    /\ Len(comments) = BatchSize
    /\ offset_id = comments[Len(comments)].id

C26_ThreadIds == {i \in MsgIds : ~arg[i].gone}

\* C26: comment and topic flow against a remote that answers a fetch with the
\* up-to-batch-size messages of the highest ids below the cursor: when the
\* batch loop is over the concatenation of the batches holds every message of
\* the thread exactly once, whatever the size of the thread.
C26_EveryMessageOnce ==
    (/\ fn = "thread"
     /\ \/ pc = "download"
        \/ outcome \in {"NoContent", "StartBeyond", "Completed"}) =>
        /\ Len(comments) = Cardinality(C26_ThreadIds)
        /\ {comments[i].id : i \in 1..Len(comments)} = C26_ThreadIds
        /\ \A i \in 1..Len(comments) : comments[i] = Msg(comments[i].id, arg[comments[i].id])

\* a thread of exactly one full batch, collected whole
C26_Witness ==
    /\ fn = "thread" /\ flow = "topic" /\ pc = "download"
    /\ Cardinality(C26_ThreadIds) = BatchSize
    /\ Len(comments) = BatchSize

C28_Called == fn = "progress_callback" /\ ret.done

C28_Elapsed == ret.now - ret.since

\* C28 as amended: an invocation with current = total emits a line; one with
\* current < total emits when more than 300 ms have passed since the last
\* emission (since the creation of the reporter when it has emitted nothing)
\* and emits nothing when fewer have passed; one with total = 0 emits with
\* percent 0 and divides by nothing that is zero.
C28_Throttle ==
    C28_Called =>
        /\ ret.current = ret.total => ret.out.emitted
        /\ ret.current < ret.total =>
              /\ C28_Elapsed > throttle_ms => ret.out.emitted
              /\ C28_Elapsed < throttle_ms => ~ret.out.emitted
        /\ ret.total = 0 =>
              ret.out.emitted /\ ret.out.percent.num = 0 /\ ~ret.out.raised

\* a reporter that has printed before prints again, transfer unfinished, more
\* than 300 ms later
C28_Witness ==
    /\ C28_Called /\ ~ret.first
    /\ ret.current < ret.total /\ ret.current > 0
    /\ C28_Elapsed > throttle_ms
    /\ ret.since # arg.start_time
    /\ ret.out.emitted

\* C28 as stated: an invocation with current < total emits exactly when it is
\* the first invocation or at least 300 ms have passed since the last emission.
C28_FirstInvocationEmits ==
    (C28_Called /\ ret.current < ret.total) =>
        (ret.out.emitted <=> (ret.first \/ C28_Elapsed >= throttle_ms))

C27_SubFolders == {"images", "videos"}

C27_Pending(d) ==
    \E i \in 1..Len(media_messages) :
        LET c == IF flow = "bot" THEN ClassifyBot(media_messages[i])
                 ELSE IF flow = "comment" THEN ClassifyComment(media_messages[i])
                 ELSE ClassifyTopic(media_messages[i])
        IN  c.ok /\ c.dir = d

\* C27: in all three flows a transfer writes into a folder that exists, and the
\* image or the video sub-folder exists only if an item of its kind has been
\* transferred into it or is still waiting to be (a run with images only has
\* no video sub-folder).
C27_LazySubFolders ==
    /\ \A i \in 1..Len(attempts) : attempts[i].dir \in dirs
    /\ \A d \in C27_SubFolders \cap dirs :
          (\E i \in 1..Len(attempts) : attempts[i].dir = d) \/ C27_Pending(d)

\* the same for the comment and the topic flow alone
C27_LazyInCursorFlows == flow # "bot" => C27_LazySubFolders

C29_AllMedia == MediaSorted(comments)

\* C29: comment flow, any start-from value: the sequence index of every
\* download attempt is at least 1 and is the 1-based position of the item in
\* the ascending-id list of all media comments; with start-from beyond the
\* number of media comments nothing is attempted and the run ends cleanly.
C29_OneBasedIndex ==
    flow = "comment" =>
        /\ \A i \in 1..Len(attempts) :
              /\ attempts[i].idx >= 1
              /\ attempts[i].idx <= Len(C29_AllMedia)
              /\ C29_AllMedia[attempts[i].idx].id = attempts[i].id
        /\ (pc = "ended" /\ outcome \notin {"Error", "NotChannel", "NotFound", "NoComments"}
              /\ start_from > Len(C29_AllMedia) /\ C29_AllMedia # <<>>) =>
              attempts = <<>> /\ outcome = "StartBeyond"

\* the same for start-from values of at least 1
C29_FromOneOn == start_from >= 1 => C29_OneBasedIndex
====
